---- MODULE Spec2Model ----
(***************************************************************************)
(* A model of cosmic_ray/work_item.py (WorkItem, WorkResult, the JSON      *)
(* encoder and decoder) and of cosmic_ray/testing/unittest_runner.py.      *)
(*                                                                         *)
(* Python values are records tagged by their type in field t.  A str is a  *)
(* sequence of lexical tokens, each token either the separator "/" or a    *)
(* slash-free name, with no two names adjacent, so that pathlib's parsing  *)
(* of a path can be computed.  JSON text is modelled by the tree of JSON   *)
(* values it denotes, tagged in field j.                                   *)
(***************************************************************************)
EXTENDS Integers, Sequences, FiniteSets, TLC

VARIABLES
    obj,      \* the object the driver holds (a WorkItem, a WorkResult, a container of them) or None
    made,     \* the arguments the constructor was called with, None before
    call,     \* the last operation called, with its arguments
    ret,      \* what the last operation returned
    raised,   \* the exception the last operation raised, "none" if it returned
    wire,     \* the JSON document last written or received, NoDoc before
    tests     \* the tests under test_dir, each with the outcome running it has, in discovery order

vars == <<obj, made, call, ret, raised, wire, tests>>

(* ------------------------------ bounds -------------------------------- *)
MaxLine == 1         \* lines of a position range over 0..MaxLine
MaxCol == 1          \* columns of a position range over 0..MaxCol
MaxOccurrence == 0   \* occurrence ranges over None and 0..MaxOccurrence
MaxDiffLen == 1      \* lines in a diff
MaxDepth == 2        \* containers nested around an object before encoding
MaxTests == 3        \* tests in a discovered suite

(* --------------------------- Python values ---------------------------- *)
None == [t |-> "None"]
PyInt(n) == [t |-> "int", n |-> n]
Bool(b) == [t |-> "bool", b |-> b]
Str(s) == [t |-> "str", s |-> s]
Lit(w) == Str(<<w>>)
Tuple(xs) == [t |-> "tuple", xs |-> xs]
List(xs) == [t |-> "list", xs |-> xs]
Dict(ks, vs) == [t |-> "dict", ks |-> ks, vs |-> vs]
Opaque == [t |-> "object"]

\* A member of a StrEnum: a str whose value is the literal (class StrEnum(str, enum.Enum)).
StrEnum(cls, w) == [t |-> "enum", cls |-> cls, s |-> <<w>>]

WorkerOutcome ==
    { StrEnum("WorkerOutcome", w) :
        w \in {"normal", "exception", "abnormal", "no-test", "skipped"} }

TestOutcome ==
    { StrEnum("TestOutcome", w) : w \in {"survived", "killed", "incompetent"} }

TestOutcome_SURVIVED == StrEnum("TestOutcome", "survived")

Return(v) == [raised |-> "none", val |-> v]
Raise(e) == [raised |-> e, val |-> None]

IsStr(v) == v.t \in {"str", "enum"}

\* dict lookup: d[k], and k in d
HasKey(d, k) == \E i \in 1..Len(d.ks) : d.ks[i] = k
Get(d, k) ==
    IF HasKey(d, k) THEN d.vs[CHOOSE i \in 1..Len(d.ks) : d.ks[i] = k] ELSE None

(* ------------------------------ pathlib ------------------------------- *)
RECURSIVE LeadingSlashes(_)
LeadingSlashes(s) ==
    IF s = <<>> \/ Head(s) # "/" THEN 0 ELSE 1 + LeadingSlashes(Tail(s))

RECURSIVE JoinParts(_)
JoinParts(parts) ==
    IF parts = <<>> THEN <<>>
    ELSE IF Len(parts) = 1 THEN parts
    ELSE <<Head(parts), "/">> \o JoinParts(Tail(parts))

\* str(pathlib.PurePosixPath(s)): empty and "." components are dropped, one or
\* three and more leading slashes are the root "/", exactly two are "//", and
\* the empty path is ".".
PathStr(s) ==
    LET k == LeadingSlashes(s)
        root == IF k = 0 THEN <<>> ELSE IF k = 2 THEN <<"/", "/">> ELSE <<"/">>
        parts == SelectSeq(s, LAMBDA w : w # "/" /\ w # ".")
        joined == root \o JoinParts(parts)
    IN IF joined = <<>> THEN <<".">> ELSE joined

\* pathlib.Path(v): a str or a Path is accepted, anything else is a TypeError.
Path(v) ==
    IF v.t = "str" \/ v.t = "enum" THEN Return([t |-> "Path", s |-> PathStr(v.s)])
    ELSE IF v.t = "Path" THEN Return(v)
    ELSE Raise("TypeError")

(* ----------------------------- WorkResult ----------------------------- *)
\* mutant: the check of worker_outcome is missing
WorkResult_init_NoCheck(worker_outcome, output, test_outcome, diff) ==
    Return([t |-> "WorkResult", output |-> output, test_outcome |-> test_outcome,
            worker_outcome |-> worker_outcome, diff |-> diff])

WorkResult_init(worker_outcome, output, test_outcome, diff) ==
    IF worker_outcome = None THEN Raise("ValueError")
    ELSE Return([t |-> "WorkResult", output |-> output, test_outcome |-> test_outcome,
                 worker_outcome |-> worker_outcome, diff |-> diff])

WorkResult_as_dict(self) ==
    Dict(<< <<"output">>, <<"test_outcome">>, <<"worker_outcome">>, <<"diff">> >>,
         <<self.output, self.test_outcome, self.worker_outcome, self.diff>>)

(* ------------------------------ WorkItem ------------------------------ *)
\* v[i] for the 0-based index i of a position
Subscript(v, i) ==
    IF v.t \notin {"tuple", "list"} THEN Raise("TypeError")
    ELSE IF Len(v.xs) <= i THEN Raise("IndexError")
    ELSE Return(v.xs[i + 1])

\* mutant: the column test is > where the code has >=, so an empty span is accepted
WorkItem_init_AcceptsEmptySpan(module_path, operator_name, occurrence, start_pos, end_pos, job_id) ==
    LET s0 == Subscript(start_pos, 0)
        e0 == Subscript(end_pos, 0)
        s1 == Subscript(start_pos, 1)
        e1 == Subscript(end_pos, 1)
        p == Path(module_path)
    IN IF s0.raised # "none" THEN Raise(s0.raised)
       ELSE IF e0.raised # "none" THEN Raise(e0.raised)
       ELSE IF s0.val.n > e0.val.n THEN Raise("ValueError")
       ELSE IF s0.val.n = e0.val.n /\ s1.raised # "none" THEN Raise(s1.raised)
       ELSE IF s0.val.n = e0.val.n /\ e1.raised # "none" THEN Raise(e1.raised)
       ELSE IF s0.val.n = e0.val.n /\ s1.val.n > e1.val.n THEN Raise("ValueError")
       ELSE IF p.raised # "none" THEN Raise(p.raised)
       ELSE Return([t |-> "WorkItem", module_path |-> p.val,
                    operator_name |-> operator_name, occurrence |-> occurrence,
                    start_pos |-> start_pos, end_pos |-> end_pos, job_id |-> job_id])

WorkItem_init(module_path, operator_name, occurrence, start_pos, end_pos, job_id) ==
    LET s0 == Subscript(start_pos, 0)
        e0 == Subscript(end_pos, 0)
        s1 == Subscript(start_pos, 1)
        e1 == Subscript(end_pos, 1)
        p == Path(module_path)
    IN IF s0.raised # "none" THEN Raise(s0.raised)
       ELSE IF e0.raised # "none" THEN Raise(e0.raised)
       ELSE IF s0.val.n > e0.val.n THEN Raise("ValueError")
       ELSE IF s0.val.n = e0.val.n /\ s1.raised # "none" THEN Raise(s1.raised)
       ELSE IF s0.val.n = e0.val.n /\ e1.raised # "none" THEN Raise(e1.raised)
       ELSE IF s0.val.n = e0.val.n /\ s1.val.n >= e1.val.n THEN Raise("ValueError")
       ELSE IF p.raised # "none" THEN Raise(p.raised)
       ELSE Return([t |-> "WorkItem", module_path |-> p.val,
                    operator_name |-> operator_name, occurrence |-> occurrence,
                    start_pos |-> start_pos, end_pos |-> end_pos, job_id |-> job_id])

\* mutant: as_dict leaves the occurrence out
WorkItem_as_dict_NoOccurrence(self) ==
    Dict(<< <<"module_path">>, <<"operator_name">>, <<"occurrence">>,
            <<"start_pos">>, <<"end_pos">>, <<"job_id">> >>,
         <<Str(self.module_path.s), self.operator_name, None,
           self.start_pos, self.end_pos, self.job_id>>)

WorkItem_as_dict(self) ==
    Dict(<< <<"module_path">>, <<"operator_name">>, <<"occurrence">>,
            <<"start_pos">>, <<"end_pos">>, <<"job_id">> >>,
         <<Str(self.module_path.s), self.operator_name, self.occurrence,
           self.start_pos, self.end_pos, self.job_id>>)

(* ------------------------------ equality ------------------------------ *)
RECURSIVE PyEq(_, _)

\* dict.__eq__: the same keys, and equal values under each key, in any order
DictEq(a, b) ==
    /\ Len(a.ks) = Len(b.ks)
    /\ \A i \in 1..Len(a.ks) : HasKey(b, a.ks[i]) /\ PyEq(a.vs[i], Get(b, a.ks[i]))

\* mutant: items are compared by job_id alone
WorkItem_eq_ByJobId(self, rhs) == PyEq(self.job_id, rhs.job_id)

WorkItem_eq(self, rhs) == DictEq(WorkItem_as_dict(self), WorkItem_as_dict(rhs))

WorkResult_eq(self, rhs) == DictEq(WorkResult_as_dict(self), WorkResult_as_dict(rhs))

\* a == b.  A str and a StrEnum member compare by their characters; a tuple
\* never equals a list.  Both operands of a WorkItem or WorkResult comparison
\* are objects with as_dict here.
PyEq(a, b) ==
    IF IsStr(a) /\ IsStr(b) THEN a.s = b.s
    ELSE IF a.t # b.t THEN FALSE
    ELSE CASE a.t = "None" -> TRUE
           [] a.t = "int" -> a.n = b.n
           [] a.t = "bool" -> a.b = b.b
           [] a.t \in {"tuple", "list"} ->
                /\ Len(a.xs) = Len(b.xs)
                /\ \A i \in 1..Len(a.xs) : PyEq(a.xs[i], b.xs[i])
           [] a.t = "dict" -> DictEq(a, b)
           [] a.t = "Path" -> a.s = b.s
           [] a.t = "WorkItem" -> WorkItem_eq(a, b)
           [] a.t = "WorkResult" -> WorkResult_eq(a, b)
           [] OTHER -> TRUE

\* mutant: killed only when the test outcome says so
WorkResult_is_killed_OnlyKilled(self) ==
    PyEq(self.test_outcome, StrEnum("TestOutcome", "killed"))

WorkResult_is_killed(self) == ~PyEq(self.test_outcome, TestOutcome_SURVIVED)

(* ------------------------------ JSON text ----------------------------- *)
JNull == [j |-> "null"]
JBool(b) == [j |-> "bool", b |-> b]
JNumber(n) == [j |-> "number", n |-> n]
JString(s) == [j |-> "string", s |-> s]
JArray(xs) == [j |-> "array", xs |-> xs]
JObject(ks, vs) == [j |-> "object", ks |-> ks, vs |-> vs]
NoDoc == [src |-> "none", text |-> JNull]

\* the first exception among the results rs, "none" when every one returned
FirstRaised(rs) ==
    IF \A i \in 1..Len(rs) : rs[i].raised = "none" THEN "none"
    ELSE rs[CHOOSE i \in 1..Len(rs) :
                /\ rs[i].raised # "none"
                /\ \A k \in 1..(i - 1) : rs[k].raised = "none"].raised

Vals(rs) == [i \in 1..Len(rs) |-> rs[i].val]

(* ------------------------- WorkItemJsonEncoder ------------------------ *)
\* WorkItemJsonEncoder.default(o): called for what JSONEncoder cannot serialize
\* mutant: a WorkResult is tagged as a WorkItem
default_WrongTag(o) ==
    IF o.t = "WorkItem"
    THEN Return(Dict(<< <<"_type">>, <<"values">> >>, <<Lit("WorkItem"), WorkItem_as_dict(o)>>))
    ELSE IF o.t = "WorkResult"
    THEN Return(Dict(<< <<"_type">>, <<"values">> >>, <<Lit("WorkItem"), WorkResult_as_dict(o)>>))
    ELSE Raise("TypeError")

default(o) ==
    IF o.t = "WorkItem"
    THEN Return(Dict(<< <<"_type">>, <<"values">> >>, <<Lit("WorkItem"), WorkItem_as_dict(o)>>))
    ELSE IF o.t = "WorkResult"
    THEN Return(Dict(<< <<"_type">>, <<"values">> >>, <<Lit("WorkResult"), WorkResult_as_dict(o)>>))
    ELSE Raise("TypeError")

\* json.dumps(v, cls=WorkItemJsonEncoder): None, bool, int and str are written
\* as they are, a StrEnum member as the str it is, a tuple or a list as an
\* array, a dict as an object, and anything else as what default() returns.
RECURSIVE dumps(_)
dumps(v) ==
    CASE v.t = "None" -> Return(JNull)
      [] v.t = "bool" -> Return(JBool(v.b))
      [] v.t = "int" -> Return(JNumber(v.n))
      [] v.t \in {"str", "enum"} -> Return(JString(v.s))
      [] v.t \in {"tuple", "list"} ->
            LET rs == [i \in 1..Len(v.xs) |-> dumps(v.xs[i])]
            IN IF FirstRaised(rs) # "none" THEN Raise(FirstRaised(rs))
               ELSE Return(JArray(Vals(rs)))
      [] v.t = "dict" ->
            LET rs == [i \in 1..Len(v.vs) |-> dumps(v.vs[i])]
            IN IF FirstRaised(rs) # "none" THEN Raise(FirstRaised(rs))
               ELSE Return(JObject(v.ks, Vals(rs)))
      [] OTHER ->
            LET d == default(v)
            IN IF d.raised # "none" THEN Raise(d.raised) ELSE dumps(d.val)

(* ------------------------- WorkItemJsonDecoder ------------------------ *)
WorkItemParams ==
    { <<"module_path">>, <<"operator_name">>, <<"occurrence">>,
      <<"start_pos">>, <<"end_pos">>, <<"job_id">> }

WorkResultParams ==
    { <<"worker_outcome">>, <<"output">>, <<"test_outcome">>, <<"diff">> }

\* WorkItem(**values): values must be a mapping naming only parameters; every
\* parameter left out takes its default, None.
WorkItem_kwargs(values) ==
    IF values.t # "dict" THEN Raise("TypeError")
    ELSE IF \E i \in 1..Len(values.ks) : values.ks[i] \notin WorkItemParams
    THEN Raise("TypeError")
    ELSE WorkItem_init(Get(values, <<"module_path">>), Get(values, <<"operator_name">>),
                       Get(values, <<"occurrence">>), Get(values, <<"start_pos">>),
                       Get(values, <<"end_pos">>), Get(values, <<"job_id">>))

\* WorkResult(**values): as above, and worker_outcome has no default.
WorkResult_kwargs(values) ==
    IF values.t # "dict" THEN Raise("TypeError")
    ELSE IF \E i \in 1..Len(values.ks) : values.ks[i] \notin WorkResultParams
    THEN Raise("TypeError")
    ELSE IF ~HasKey(values, <<"worker_outcome">>) THEN Raise("TypeError")
    ELSE WorkResult_init(Get(values, <<"worker_outcome">>), Get(values, <<"output">>),
                         Get(values, <<"test_outcome">>), Get(values, <<"diff">>))

\* WorkItemJsonDecoder._decode_work_items(obj), the object_hook
\* mutant: values is read without the test that it is there
decode_work_items_NoValuesCheck(o) ==
    IF PyEq(Get(o, <<"_type">>), Lit("WorkItem"))
    THEN IF HasKey(o, <<"values">>) THEN WorkItem_kwargs(Get(o, <<"values">>))
         ELSE Raise("KeyError")
    ELSE IF PyEq(Get(o, <<"_type">>), Lit("WorkResult"))
    THEN IF HasKey(o, <<"values">>) THEN WorkResult_kwargs(Get(o, <<"values">>))
         ELSE Raise("KeyError")
    ELSE Return(o)

\* mutant: the WorkResult branch is missing
decode_work_items_ItemsOnly(o) ==
    IF PyEq(Get(o, <<"_type">>), Lit("WorkItem")) /\ HasKey(o, <<"values">>)
    THEN WorkItem_kwargs(Get(o, <<"values">>))
    ELSE Return(o)

decode_work_items(o) ==
    IF PyEq(Get(o, <<"_type">>), Lit("WorkItem")) /\ HasKey(o, <<"values">>)
    THEN WorkItem_kwargs(Get(o, <<"values">>))
    ELSE IF PyEq(Get(o, <<"_type">>), Lit("WorkResult")) /\ HasKey(o, <<"values">>)
    THEN WorkResult_kwargs(Get(o, <<"values">>))
    ELSE Return(o)

\* WorkItemJsonDecoder().decode(text): the members of an object literal are
\* parsed first, then the object_hook is called on the dict of them.
RECURSIVE loads(_)
loads(d) ==
    CASE d.j = "null" -> Return(None)
      [] d.j = "bool" -> Return(Bool(d.b))
      [] d.j = "number" -> Return(PyInt(d.n))
      [] d.j = "string" -> Return(Str(d.s))
      [] d.j = "array" ->
            LET rs == [i \in 1..Len(d.xs) |-> loads(d.xs[i])]
            IN IF FirstRaised(rs) # "none" THEN Raise(FirstRaised(rs))
               ELSE Return(List(Vals(rs)))
      [] d.j = "object" ->
            LET rs == [i \in 1..Len(d.vs) |-> loads(d.vs[i])]
            IN IF FirstRaised(rs) # "none" THEN Raise(FirstRaised(rs))
               ELSE decode_work_items(Dict(d.ks, Vals(rs)))

(* --------------------------- UnittestRunner --------------------------- *)
TestKinds ==
    {"success", "failure", "error", "skip", "expectedFailure", "unexpectedSuccess"}

NewTestResult ==
    [errors |-> <<>>, failures |-> <<>>, unexpectedSuccesses |-> <<>>]

\* what running one test adds to a unittest.TestResult: addError and
\* addFailure append (test, traceback), addUnexpectedSuccess appends the test,
\* addSuccess, addSkip and addExpectedFailure touch none of the three lists.
RunOne(res, test) ==
    CASE test.outcome = "error" ->
            [res EXCEPT !.errors = Append(@, <<test.id, "traceback">>)]
      [] test.outcome = "failure" ->
            [res EXCEPT !.failures = Append(@, <<test.id, "traceback">>)]
      [] test.outcome = "unexpectedSuccess" ->
            [res EXCEPT !.unexpectedSuccesses = Append(@, test.id)]
      [] OTHER -> res

\* suite.run(result): the tests run in order, each reporting to result
RECURSIVE suite_run(_, _)
suite_run(ts, res) ==
    IF ts = <<>> THEN res ELSE suite_run(Tail(ts), RunOne(res, Head(ts)))

\* unittest.TestResult.wasSuccessful()
wasSuccessful(res) ==
    /\ Len(res.failures) = 0
    /\ Len(res.errors) = 0
    /\ Len(res.unexpectedSuccesses) = 0

\* UnittestRunner._run(): (result.wasSuccessful(), chain(errors, failures))
UnittestRunner_run(ts) ==
    LET res == suite_run(ts, NewTestResult)
    IN [success |-> wasSuccessful(res), failures |-> res.errors \o res.failures]

(* ------------------------------- inputs ------------------------------- *)
\* module_path texts: "", "a", "a/", "./a", "/a", "//a", "///a", "a/./a"
ModulePaths ==
    { Str(s) : s \in { <<>>, <<"a">>, <<"a", "/">>, <<".", "/", "a">>, <<"/", "a">>,
                       <<"/", "/", "a">>, <<"/", "/", "/", "a">>,
                       <<"a", "/", ".", "/", "a">> } }

OperatorNames == {Lit("NumberReplacer")}
Occurrences == {None} \cup { PyInt(n) : n \in 0..MaxOccurrence }
JobIds == {Lit("j1")}

\* a (line, column) pair, given as a tuple or as a list
Position(kind, l, c) ==
    IF kind = "tuple" THEN Tuple(<<PyInt(l), PyInt(c)>>) ELSE List(<<PyInt(l), PyInt(c)>>)

Positions ==
    { Position(kind, l, c) : kind \in {"tuple", "list"}, l \in 0..MaxLine, c \in 0..MaxCol }

Outputs == {None, Lit("Traceback")}
Diffs ==
    {None} \cup { List([i \in 1..n |-> Lit("+x")]) : n \in 0..MaxDiffLen }

Suites ==
    UNION { { [i \in 1..n |-> [id |-> i, outcome |-> f[i]]] : f \in [1..n -> TestKinds] } :
              n \in 0..MaxTests }

\* the values a caller may give for one field of a WorkItem or a WorkResult
FieldValues(field) ==
    CASE field = "module_path" -> ModulePaths
      [] field = "operator_name" -> OperatorNames \cup {None}
      [] field = "occurrence" -> Occurrences
      [] field \in {"start_pos", "end_pos"} -> Positions
      [] field = "job_id" -> JobIds \cup {None}
      [] field = "worker_outcome" -> WorkerOutcome \cup {Lit("exception")}
      [] field = "test_outcome" -> TestOutcome \cup {None, Lit("survived")}
      [] field = "output" -> Outputs
      [] field = "diff" -> Diffs

WorkItemFields ==
    {"module_path", "operator_name", "occurrence", "start_pos", "end_pos", "job_id"}
WorkResultFields == {"worker_outcome", "test_outcome", "output", "diff"}

\* JSON documents a peer may send: objects with or without a _type, a values
\* and a further member, alone or inside an array or an object
Absent == [j |-> "absent"]

ItemValues(sl, sc, el, ec) ==
    JObject(<< <<"module_path">>, <<"operator_name">>, <<"occurrence">>,
               <<"start_pos">>, <<"end_pos">>, <<"job_id">> >>,
            <<JString(<<"a">>), JString(<<"NumberReplacer">>), JNumber(0),
              JArray(<<JNumber(sl), JNumber(sc)>>), JArray(<<JNumber(el), JNumber(ec)>>),
              JString(<<"j1">>)>>)

PeerValues ==
    { Absent, JNull, JNumber(3), JObject(<<>>, <<>>),
      ItemValues(0, 0, 0, 1), ItemValues(1, 0, 0, 0), ItemValues(0, 0, 0, 0),
      JObject(<< <<"start_pos">>, <<"end_pos">> >>,
              <<JArray(<<JNumber(0), JNumber(0)>>), JArray(<<JNumber(0), JNumber(1)>>)>>),
      JObject(<< <<"x">> >>, <<JNumber(1)>>),
      JObject(<< <<"worker_outcome">> >>, <<JString(<<"normal">>)>>),
      JObject(<< <<"worker_outcome">>, <<"test_outcome">> >>,
              <<JNull, JString(<<"killed">>)>>) }

PeerTypes ==
    { Absent, JNull, JNumber(1), JString(<<"WorkItem">>), JString(<<"WorkResult">>),
      JString(<<"Other">>) }

PeerObject(ty, vals, note) ==
    LET m == << <<(<<"_type">>), ty>>, <<(<<"values">>), vals>>, <<(<<"note">>), note>> >>
        present == SelectSeq(m, LAMBDA kv : kv[2] # Absent)
    IN JObject([i \in 1..Len(present) |-> present[i][1]],
               [i \in 1..Len(present) |-> present[i][2]])

PeerObjects ==
    { PeerObject(ty, vals, note) :
        ty \in PeerTypes, vals \in PeerValues, note \in {Absent, JNumber(7)} }

PeerDocs ==
    PeerObjects
        \cup { JArray(<<JNumber(7), o>>) : o \in PeerObjects }
        \cup { JObject(<< <<"k">>, <<"n">> >>, <<o, JNumber(7)>>) : o \in PeerObjects }

RECURSIVE Depth(_)
Depth(v) ==
    IF v.t \in {"tuple", "list"} THEN 1 + Depth(v.xs[Len(v.xs)])
    ELSE IF v.t = "dict" THEN 1 + Depth(v.vs[1])
    ELSE 0

(* ------------------------------- actions ------------------------------ *)
Start == [op |-> "start"]

\* The last call built or changed the object held.  A call that only reads
\* (a property, as_dict, is_killed, ==, json.dumps) leaves obj and made as they
\* are and returns what they alone decide, so the state after it is the same
\* whether or not other reads came before it: reads are taken from the states
\* a constructor, an assignment or a wrapping left, and the object held and
\* the value returned by any sequence of such calls are still reached.
Settled == call.op \in {"WorkItem", "WorkResult", "set_occurrence", "object", "wrap"}

Init ==
    /\ obj = None
    /\ made = None
    /\ call = Start
    /\ ret = None
    /\ raised = "none"
    /\ wire = NoDoc
    /\ tests = <<>>

\* the caller constructs a WorkItem
NewWorkItem ==
    /\ call = Start
    /\ \E mp \in ModulePaths, on \in OperatorNames, oc \in Occurrences,
          kind \in {"tuple", "list"}, sl \in 0..MaxLine, sc \in 0..MaxCol,
          el \in 0..MaxLine, ec \in 0..MaxCol, job \in JobIds :
          LET sp == Position(kind, sl, sc)
              ep == Position(kind, el, ec)
              r == WorkItem_init(mp, on, oc, sp, ep, job)
          IN /\ made' = [cls |-> "WorkItem", module_path |-> mp, operator_name |-> on,
                         occurrence |-> oc, start_pos |-> sp, end_pos |-> ep,
                         job_id |-> job]
             /\ call' = [op |-> "WorkItem"]
             /\ obj' = r.val
             /\ ret' = r.val
             /\ raised' = r.raised
    /\ UNCHANGED <<wire, tests>>

\* the caller constructs a WorkResult
NewWorkResult ==
    /\ call = Start
    /\ \E wo \in FieldValues("worker_outcome") \cup {None}, out \in Outputs,
          to \in FieldValues("test_outcome"), df \in Diffs :
          LET r == WorkResult_init(wo, out, to, df)
          IN /\ made' = [cls |-> "WorkResult", worker_outcome |-> wo, output |-> out,
                         test_outcome |-> to, diff |-> df]
             /\ call' = [op |-> "WorkResult"]
             /\ obj' = r.val
             /\ ret' = r.val
             /\ raised' = r.raised
    /\ UNCHANGED <<wire, tests>>

\* item.occurrence = v
SetOccurrence ==
    /\ obj.t = "WorkItem"
    /\ \E v \in Occurrences :
          /\ obj' = [obj EXCEPT !.occurrence = v]
          /\ call' = [op |-> "set_occurrence", value |-> v]
    /\ ret' = None
    /\ raised' = "none"
    /\ UNCHANGED <<made, wire, tests>>

\* a property accessor: item.module_path, result.diff, ...
Property ==
    /\ Settled
    /\ obj.t \in {"WorkItem", "WorkResult"}
    /\ \E name \in (IF obj.t = "WorkItem" THEN WorkItemFields ELSE WorkResultFields) :
          /\ call' = [op |-> "property", name |-> name]
          /\ ret' = obj[name]
    /\ raised' = "none"
    /\ UNCHANGED <<obj, made, wire, tests>>

\* obj.as_dict()
AsDict ==
    /\ Settled
    /\ obj.t \in {"WorkItem", "WorkResult"}
    /\ call' = [op |-> "as_dict"]
    /\ ret' = IF obj.t = "WorkItem" THEN WorkItem_as_dict(obj) ELSE WorkResult_as_dict(obj)
    /\ raised' = "none"
    /\ UNCHANGED <<obj, made, wire, tests>>

\* result.is_killed
IsKilled ==
    /\ Settled
    /\ obj.t = "WorkResult"
    /\ call' = [op |-> "is_killed"]
    /\ ret' = Bool(WorkResult_is_killed(obj))
    /\ raised' = "none"
    /\ UNCHANGED <<obj, made, wire, tests>>

\* item == rhs, for a second WorkItem built from the field values of the
\* first, one of them replaced by any value of that field (its own included)
CompareItems ==
    /\ Settled
    /\ obj.t = "WorkItem"
    /\ \E field \in WorkItemFields :
       \E v \in FieldValues(field) :
          LET kw == [obj EXCEPT ![field] = v]
              r == WorkItem_init(kw.module_path, kw.operator_name, kw.occurrence,
                                 kw.start_pos, kw.end_pos, kw.job_id)
          IN /\ r.raised = "none"
             /\ call' = [op |-> "eq", field |-> field, rhs |-> r.val]
             /\ ret' = Bool(WorkItem_eq(obj, r.val))
    /\ raised' = "none"
    /\ UNCHANGED <<obj, made, wire, tests>>

\* result == rhs, for a second WorkResult built the same way
CompareResults ==
    /\ Settled
    /\ obj.t = "WorkResult"
    /\ \E field \in WorkResultFields :
       \E v \in FieldValues(field) :
          LET kw == [obj EXCEPT ![field] = v]
              r == WorkResult_init(kw.worker_outcome, kw.output, kw.test_outcome, kw.diff)
          IN /\ r.raised = "none"
             /\ call' = [op |-> "eq", field |-> field, rhs |-> r.val]
             /\ ret' = Bool(WorkResult_eq(obj, r.val))
    /\ raised' = "none"
    /\ UNCHANGED <<obj, made, wire, tests>>

\* json.dumps(obj, cls=WorkItemJsonEncoder)
Dumps ==
    /\ Settled
    /\ obj # None
    /\ LET r == dumps(obj)
       IN /\ ret' = r.val
          /\ raised' = r.raised
    /\ call' = [op |-> "dumps"]
    /\ UNCHANGED <<obj, made, wire, tests>>

Next ==
    \/ NewWorkItem
    \/ NewWorkResult
    \/ SetOccurrence
    \/ Property
    \/ AsDict
    \/ IsKilled
    \/ CompareItems
    \/ CompareResults
    \/ Dumps

Spec == Init /\ [][Next]_vars

(* ---------------------- encoding and decoding runs -------------------- *)
\* the caller holds an object the encoder has no rule for
NewOpaque ==
    /\ call = Start
    /\ obj' = Opaque
    /\ call' = [op |-> "object"]
    /\ ret' = Opaque
    /\ raised' = "none"
    /\ UNCHANGED <<made, wire, tests>>

\* the caller puts what it holds into a list, a tuple or a dict
Wrap ==
    /\ obj # None
    /\ call.op \in {"WorkItem", "WorkResult", "object", "wrap"}
    /\ Depth(obj) < MaxDepth
    /\ \E kind \in {"list", "tuple", "dict"} :
          /\ obj' = CASE kind = "list" -> List(<<PyInt(7), obj>>)
                      [] kind = "tuple" -> Tuple(<<obj>>)
                      [] kind = "dict" -> Dict(<< <<"k">>, <<"n">> >>, <<obj, PyInt(7)>>)
          /\ call' = [op |-> "wrap", kind |-> kind]
    /\ ret' = None
    /\ raised' = "none"
    /\ UNCHANGED <<made, wire, tests>>

\* the text json.dumps returned is written out
Send ==
    /\ call.op = "dumps"
    /\ raised = "none"
    /\ wire' = [src |-> "dumps", text |-> ret]
    /\ call' = [op |-> "send"]
    /\ ret' = None
    /\ UNCHANGED <<obj, made, raised, tests>>

\* a document arrives from a peer
Receive ==
    /\ call = Start
    /\ \E d \in PeerDocs : wire' = [src |-> "peer", text |-> d]
    /\ call' = [op |-> "receive"]
    /\ UNCHANGED <<obj, made, ret, raised, tests>>

\* WorkItemJsonDecoder().decode(text) of the document last written or received
Loads ==
    /\ call.op \in {"send", "receive"}
    /\ LET r == loads(wire.text)
       IN /\ ret' = r.val
          /\ raised' = r.raised
    /\ call' = [op |-> "loads"]
    /\ UNCHANGED <<obj, made, wire, tests>>

NextCodec ==
    \/ NewWorkItem
    \/ NewWorkResult
    \/ NewOpaque
    \/ Wrap
    \/ Dumps
    \/ Send
    \/ Receive
    \/ Loads

SpecCodec == Init /\ [][NextCodec]_vars

(* --------------------------- test runner runs ------------------------- *)
InitRunner ==
    /\ obj = None
    /\ made = None
    /\ call = Start
    /\ ret = None
    /\ raised = "none"
    /\ wire = NoDoc
    /\ tests \in Suites

\* runner._run() over the tests under test_dir
Run ==
    /\ call = Start
    /\ ret' = UnittestRunner_run(tests)
    /\ call' = [op |-> "run"]
    /\ raised' = "none"
    /\ UNCHANGED <<obj, made, wire, tests>>

NextRunner == Run

SpecRunner == InitRunner /\ [][NextRunner]_vars

(* ================================ claims ============================== *)
Line(pos) == pos.xs[1].n
Col(pos) == pos.xs[2].n

\* the span rule of the specification: end strictly after start
Ordered(sp, ep) == Line(sp) < Line(ep) \/ (Line(sp) = Line(ep) /\ Col(sp) < Col(ep))

\* two field values a Python caller cannot tell apart with ==: the same value,
\* or a str and a StrEnum member of the same characters
SameValue(a, b) == a = b \/ (IsStr(a) /\ IsStr(b) /\ a.s = b.s)

\* C2: constructing a WorkItem succeeds exactly when end_pos is strictly after
\* start_pos (a later line, or the same line and a later column); then the
\* item holds the two positions as given, and otherwise the call raises an
\* error and produces no item.
C2_SpanDecidesConstruction ==
    call.op = "WorkItem" =>
        /\ (raised = "none") <=> Ordered(made.start_pos, made.end_pos)
        /\ Ordered(made.start_pos, made.end_pos) =>
              /\ obj.t = "WorkItem"
              /\ obj.start_pos = made.start_pos
              /\ obj.end_pos = made.end_pos
        /\ ~Ordered(made.start_pos, made.end_pos) =>
              /\ raised = "ValueError"
              /\ obj = None
              /\ ret = None

\* C2 witness: a span whose end equals its start has been rejected.
C2_Witness ==
    /\ call.op = "WorkItem"
    /\ Line(made.start_pos) = Line(made.end_pos)
    /\ Col(made.start_pos) = Col(made.end_pos)
    /\ raised = "ValueError"
    /\ obj = None

\* C3: is_killed is false when test_outcome is 'survived' and true for every
\* other test_outcome, None included, whatever the worker_outcome.
C3_IsKilledUnlessSurvived ==
    call.op = "is_killed" =>
        /\ ret.t = "bool"
        /\ ret.b <=> ~(IsStr(obj.test_outcome) /\ obj.test_outcome.s = <<"survived">>)
        /\ obj.test_outcome = None => ret.b
        /\ obj.test_outcome = StrEnum("TestOutcome", "killed") => ret.b
        /\ obj.test_outcome = StrEnum("TestOutcome", "incompetent") => ret.b
        /\ obj.test_outcome = StrEnum("TestOutcome", "survived") => ~ret.b

\* C3 witness: is_killed was read on a result without a test_outcome, and is true.
C3_Witness ==
    /\ call.op = "is_killed"
    /\ obj.test_outcome = None
    /\ obj.worker_outcome = StrEnum("WorkerOutcome", "normal")
    /\ ret = Bool(TRUE)

\* C4: a WorkItem (a WorkResult) equals a second one built from the same field
\* values, and is unequal to one that differs from it in a single field.
C4_StructuralEquality ==
    call.op = "eq" =>
        /\ ret.t = "bool"
        /\ ret.b <=>
              \A f \in (IF obj.t = "WorkItem" THEN WorkItemFields ELSE WorkResultFields) :
                  SameValue(obj[f], call.rhs[f])

\* C4 witness: two items that differ in job_id alone compared unequal.
C4_Witness ==
    /\ call.op = "eq"
    /\ obj.t = "WorkItem"
    /\ call.rhs.job_id # obj.job_id
    /\ \A f \in WorkItemFields \ {"job_id"} : call.rhs[f] = obj[f]
    /\ ret = Bool(FALSE)

\* C8: constructing a WorkResult fails exactly when worker_outcome is None; a
\* construction that succeeds stores the four values as given, whichever of
\* output, test_outcome and diff are None.
C8_WorkerOutcomeRequired ==
    call.op = "WorkResult" =>
        /\ (raised # "none") <=> (made.worker_outcome = None)
        /\ made.worker_outcome # None =>
              /\ obj.t = "WorkResult"
              /\ obj.worker_outcome = made.worker_outcome
              /\ obj.output = made.output
              /\ obj.test_outcome = made.test_outcome
              /\ obj.diff = made.diff
        /\ made.worker_outcome = None =>
              /\ raised = "ValueError"
              /\ obj = None

\* C8 witness: a construction without worker_outcome has been rejected.
C8_Witness ==
    /\ call.op = "WorkResult"
    /\ made.worker_outcome = None
    /\ made.output # None
    /\ raised = "ValueError"

\* C10: whatever was done to a constructed WorkItem (accessor reads, as_dict,
\* comparisons, encoding, assignments to occurrence), module_path,
\* operator_name, start_pos, end_pos and job_id are those given at
\* construction (module_path as the Path of the text given), the span is
\* ordered, and as_dict and equality show the occurrence the item now has.
C10_OnlyOccurrenceChanges ==
    obj.t = "WorkItem" =>
        /\ obj.module_path = [t |-> "Path", s |-> PathStr(made.module_path.s)]
        /\ obj.operator_name = made.operator_name
        /\ obj.start_pos = made.start_pos
        /\ obj.end_pos = made.end_pos
        /\ obj.job_id = made.job_id
        /\ Ordered(obj.start_pos, obj.end_pos)
        /\ call.op = "WorkItem" => obj.occurrence = made.occurrence
        /\ call.op = "set_occurrence" => obj.occurrence = call.value
        /\ call.op = "as_dict" =>
              /\ Get(ret, <<"occurrence">>) = obj.occurrence
              /\ Get(ret, <<"start_pos">>) = made.start_pos
              /\ Get(ret, <<"end_pos">>) = made.end_pos
              /\ Get(ret, <<"job_id">>) = made.job_id
        /\ (call.op = "eq" /\ call.field = "occurrence") =>
              (ret.b <=> call.rhs.occurrence = obj.occurrence)

\* C10 witness: as_dict was taken after occurrence was assigned a value other
\* than the one given at construction.
C10_Witness ==
    /\ obj.t = "WorkItem"
    /\ call.op = "as_dict"
    /\ obj.occurrence # made.occurrence
    /\ Get(ret, <<"occurrence">>) = obj.occurrence

(* ----------------------- claims about the codec ----------------------- *)
JHasKey(d, k) == \E i \in 1..Len(d.ks) : d.ks[i] = k
JGet(d, k) == IF JHasKey(d, k) THEN d.vs[CHOOSE i \in 1..Len(d.ks) : d.ks[i] = k] ELSE JNull

\* the structure a JSON document parses to when no object is reconstructed
RECURSIVE Parsed(_)
Parsed(d) ==
    CASE d.j = "null" -> None
      [] d.j = "bool" -> Bool(d.b)
      [] d.j = "number" -> PyInt(d.n)
      [] d.j = "string" -> Str(d.s)
      [] d.j = "array" -> List([i \in 1..Len(d.xs) |-> Parsed(d.xs[i])])
      [] d.j = "object" -> Dict(d.ks, [i \in 1..Len(d.vs) |-> Parsed(d.vs[i])])

\* an object with _type equal to the string cls and a values key
IsEnvelope(d, cls) ==
    /\ d.j = "object"
    /\ JHasKey(d, <<"_type">>)
    /\ JGet(d, <<"_type">>) = JString(<<cls>>)
    /\ JHasKey(d, <<"values">>)

IsPosition(d) == d.j = "array" /\ Len(d.xs) = 2 /\ \A i \in 1..2 : d.xs[i].j = "number"

\* a values mapping from which the specification lets a WorkItem be built
DescribesItem(vals) ==
    /\ vals.j = "object"
    /\ \A i \in 1..Len(vals.ks) : vals.ks[i] \in WorkItemParams
    /\ JGet(vals, <<"module_path">>).j = "string"
    /\ IsPosition(JGet(vals, <<"start_pos">>))
    /\ IsPosition(JGet(vals, <<"end_pos">>))
    /\ Ordered(JGet(vals, <<"start_pos">>), JGet(vals, <<"end_pos">>))

\* a values mapping from which the specification lets a WorkResult be built
DescribesResult(vals) ==
    /\ vals.j = "object"
    /\ \A i \in 1..Len(vals.ks) : vals.ks[i] \in WorkResultParams
    /\ JHasKey(vals, <<"worker_outcome">>)
    /\ JGet(vals, <<"worker_outcome">>) # JNull

WellFormedEnvelope(d) ==
    \/ IsEnvelope(d, "WorkItem") /\ DescribesItem(JGet(d, <<"values">>))
    \/ IsEnvelope(d, "WorkResult") /\ DescribesResult(JGet(d, <<"values">>))

\* a peer's object none of whose members carries a _type of its own
PlainMembers(d) ==
    /\ d.j = "object"
    /\ \A i \in 1..Len(d.vs) : d.vs[i].j = "object" => ~JHasKey(d.vs[i], <<"_type">>)

\* v is written as the JSON text j: every WorkItem and WorkResult as its
\* envelope, None as null, a StrEnum member as its literal string, a tuple or
\* a list as an array, a dict as an object of the same keys in the same order
RECURSIVE Encoded(_, _)
Encoded(v, d) ==
    CASE v.t = "None" -> d = JNull
      [] v.t = "bool" -> d = JBool(v.b)
      [] v.t = "int" -> d = JNumber(v.n)
      [] v.t = "str" -> d = JString(v.s)
      [] v.t = "enum" -> d = JString(v.s)
      [] v.t \in {"tuple", "list"} ->
            /\ d.j = "array"
            /\ Len(d.xs) = Len(v.xs)
            /\ \A i \in 1..Len(v.xs) : Encoded(v.xs[i], d.xs[i])
      [] v.t = "dict" ->
            /\ d.j = "object"
            /\ d.ks = v.ks
            /\ \A i \in 1..Len(v.vs) : Encoded(v.vs[i], d.vs[i])
      [] v.t = "WorkItem" ->
            /\ d.j = "object"
            /\ d.ks = << <<"_type">>, <<"values">> >>
            /\ d.vs[1] = JString(<<"WorkItem">>)
            /\ d.vs[2].j = "object"
            /\ d.vs[2].ks = << <<"module_path">>, <<"operator_name">>, <<"occurrence">>,
                               <<"start_pos">>, <<"end_pos">>, <<"job_id">> >>
            /\ d.vs[2].vs[1] = JString(v.module_path.s)
            /\ Encoded(v.operator_name, d.vs[2].vs[2])
            /\ Encoded(v.occurrence, d.vs[2].vs[3])
            /\ Encoded(v.start_pos, d.vs[2].vs[4])
            /\ Encoded(v.end_pos, d.vs[2].vs[5])
            /\ Encoded(v.job_id, d.vs[2].vs[6])
      [] v.t = "WorkResult" ->
            /\ d.j = "object"
            /\ d.ks = << <<"_type">>, <<"values">> >>
            /\ d.vs[1] = JString(<<"WorkResult">>)
            /\ d.vs[2].j = "object"
            /\ d.vs[2].ks = << <<"output">>, <<"test_outcome">>,
                               <<"worker_outcome">>, <<"diff">> >>
            /\ Encoded(v.output, d.vs[2].vs[1])
            /\ Encoded(v.test_outcome, d.vs[2].vs[2])
            /\ Encoded(v.worker_outcome, d.vs[2].vs[3])
            /\ Encoded(v.diff, d.vs[2].vs[4])
      [] OTHER -> FALSE

RECURSIVE Serializable(_)
Serializable(v) ==
    CASE v.t \in {"tuple", "list"} -> \A i \in 1..Len(v.xs) : Serializable(v.xs[i])
      [] v.t = "dict" -> \A i \in 1..Len(v.vs) : Serializable(v.vs[i])
      [] OTHER -> v.t # "object"

\* the JSON text d decodes to v: every envelope to the WorkItem or WorkResult
\* its values describe, every other object to a dict of the same keys in the
\* same order, every array to a list, member by member
RECURSIVE Decoded(_, _)
Decoded(d, v) ==
    CASE d.j = "null" -> v = None
      [] d.j = "bool" -> v = Bool(d.b)
      [] d.j = "number" -> v = PyInt(d.n)
      [] d.j = "string" -> v = Str(d.s)
      [] d.j = "array" ->
            /\ v.t = "list"
            /\ Len(v.xs) = Len(d.xs)
            /\ \A i \in 1..Len(d.xs) : Decoded(d.xs[i], v.xs[i])
      [] IsEnvelope(d, "WorkItem") ->
            LET vals == JGet(d, <<"values">>)
            IN /\ v.t = "WorkItem"
               /\ v.module_path = [t |-> "Path", s |-> PathStr(JGet(vals, <<"module_path">>).s)]
               /\ Decoded(JGet(vals, <<"operator_name">>), v.operator_name)
               /\ Decoded(JGet(vals, <<"occurrence">>), v.occurrence)
               /\ Decoded(JGet(vals, <<"start_pos">>), v.start_pos)
               /\ Decoded(JGet(vals, <<"end_pos">>), v.end_pos)
               /\ Decoded(JGet(vals, <<"job_id">>), v.job_id)
      [] IsEnvelope(d, "WorkResult") ->
            LET vals == JGet(d, <<"values">>)
            IN /\ v.t = "WorkResult"
               /\ Decoded(JGet(vals, <<"output">>), v.output)
               /\ Decoded(JGet(vals, <<"test_outcome">>), v.test_outcome)
               /\ Decoded(JGet(vals, <<"worker_outcome">>), v.worker_outcome)
               /\ Decoded(JGet(vals, <<"diff">>), v.diff)
      [] OTHER ->
            /\ v.t = "dict"
            /\ v.ks = d.ks
            /\ \A i \in 1..Len(d.vs) : Decoded(d.vs[i], v.vs[i])

\* C1: decoding the text the encoder wrote for a WorkItem or a WorkResult
\* gives a value of the same type that equals it under the type's own __eq__.
C1_RoundTrip ==
    (call.op = "loads" /\ wire.src = "dumps" /\ obj.t \in {"WorkItem", "WorkResult"}) =>
        /\ raised = "none"
        /\ ret.t = obj.t
        /\ PyEq(ret, obj)

\* C5: the text json.dumps returns holds, in place of every WorkItem and
\* WorkResult at any depth, the envelope {"_type", "values"} with exactly the
\* keys of as_dict, None written as null and enum members as their literal
\* strings, and holds every other value as it was given; encoding fails only
\* on a value JSON has no form for.
C5_EnvelopesEverywhere ==
    call.op = "dumps" =>
        /\ Serializable(obj) <=> raised = "none"
        /\ raised = "none" => Encoded(obj, ret)

\* C5 witness: a WorkResult without output, two containers deep, was encoded.
C5_Witness ==
    /\ call.op = "dumps"
    /\ raised = "none"
    /\ obj.t = "list"
    /\ Len(obj.xs) = 2
    /\ obj.xs[2].t = "dict"
    /\ Len(obj.xs[2].vs) = 2
    /\ obj.xs[2].vs[1].t = "WorkResult"
    /\ obj.xs[2].vs[1].output = None
    /\ Encoded(obj, ret)
    /\ ret.xs[2].vs[1].vs[2].vs[1] = JNull

C9_NestedEnvelopesReconstructed ==
    call.op = "loads" =>
        /\ wire.src = "dumps" => raised = "none"
        /\ raised = "none" => Decoded(wire.text, ret)

\* C9 witness: a WorkItem envelope inside an object inside an array was decoded.
C9_Witness ==
    /\ call.op = "loads"
    /\ raised = "none"
    /\ ret.t = "list"
    /\ Len(ret.xs) = 2
    /\ ret.xs[2].t = "dict"
    /\ Len(ret.xs[2].vs) = 2
    /\ ret.xs[2].vs[1].t = "WorkItem"
    /\ ret.xs[2].vs[2] = PyInt(7)
    /\ wire.text.j = "array"
    /\ Len(wire.text.xs) = 2
    /\ wire.text.xs[2].j = "object"
    /\ Len(wire.text.xs[2].vs) = 2
    /\ IsEnvelope(wire.text.xs[2].vs[1], "WorkItem")

(* --------------------- claims about the test runner ------------------- *)
\* C7: run returns success exactly when no test failed and none raised an
\* error, that is exactly when the list of failures it returns is empty.
C7_SuccessIffNoFailures ==
    call.op = "run" =>
        /\ ret.success <=> (ret.failures = <<>>)
        /\ ret.success <=>
              \A i \in 1..Len(tests) : tests[i].outcome \notin {"failure", "error"}

====
